---- MODULE Spec2Model ----
(***************************************************************************)
(* ECC blind signatures (boojies/blindsign): keypair, signer session,      *)
(* requester blinding, signature triple verification and the 96-byte wire  *)
(* form.                                                                   *)
(*                                                                         *)
(* The Ristretto group is a cyclic group of prime order; it is modelled by *)
(* the cyclic group of prime order GroupOrder, a point being named by its  *)
(* discrete logarithm to the base point.  A 32-byte field is modelled by   *)
(* SegLen bytes of ByteBase values each, so that, as in the library, only  *)
(* some byte strings are canonical scalars and only some decompress.       *)
(***************************************************************************)
EXTENDS Integers, Sequences, FiniteSets, TLC

VARIABLES kp, session, rp, signs, view, req, heard, ep, sp, sig, wired, decoded, verdict

vars == <<kp, session, rp, signs, view, req, heard, ep, sp, sig, wired, decoded, verdict>>

(* ------------------------------ sizes ---------------------------------- *)

\* order of the scalar field / of the group (a prime; 2^252 + ... in the library)
GroupOrder == 5
\* number of values of one byte (256 in the library)
ByteBase == 4
\* bytes of one wire field (32 in the library)
SegLen == 2
\* number of values of the 512-bit digest (2^512 in the library)
HashMod == 64
\* number of distinct messages a requester may ask a signature for
MaxMsg == 6

(* --------------------------- Option / Result --------------------------- *)

None == [tag |-> "None"]
Ok(x) == [tag |-> "Ok", v |-> x]
Err(e) == [tag |-> "Err", err |-> e]

(* ------------------------------ scalars -------------------------------- *)

\* the reduced scalars: what Scalar::random, Scalar::from_canonical_bytes and the
\* scalar arithmetic yield
Scalars == 0 .. (GroupOrder - 1)
Bytes == 0 .. (ByteBase - 1)
Segments == [1 .. SegLen -> Bytes]

RECURSIVE Pow(_, _)
Pow(b, n) == IF n = 0 THEN 1 ELSE b * Pow(b, n - 1)

RECURSIVE LEValue(_)
\* the integer a little-endian byte string encodes
LEValue(bs) == IF Len(bs) = 0 THEN 0 ELSE Head(bs) + ByteBase * LEValue(Tail(bs))

\* the little-endian SegLen-byte string of an integer
LEBytes(n) == [i \in 1 .. SegLen |-> (n \div Pow(ByteBase, i - 1)) % ByteBase]

\* every value the type Scalar can hold: Scalar::from_bits keeps any bytes with the
\* top bit cleared, so a Scalar handed in by a caller need not be reduced; it acts
\* in arithmetic as its residue, and its bytes are the unreduced ones
ScalarValues == 0 .. ((Pow(ByteBase, SegLen) \div 2) - 1)

ScalarAdd(x, y) == (x + y) % GroupOrder
ScalarMul(x, y) == (x * y) % GroupOrder

\* Scalar::from_canonical_bytes: Some only for the reduced representative
Scalar_from_canonical_bytes(bs) ==
    IF LEValue(bs) < GroupOrder THEN Ok(LEValue(bs)) ELSE None

\* Scalar::to_bytes / as_bytes
Scalar_to_bytes(x) == LEBytes(x)

(* ------------------------------- points -------------------------------- *)

Point(d) == [dlog |-> d % GroupOrder]
Points == {Point(d) : d \in Scalars}
RISTRETTO_BASEPOINT_POINT == Point(1)
IdentityPoint == Point(0)

PointAdd(p, q) == Point(p.dlog + q.dlog)
\* scalar * point
PointMul(x, p) == Point(x * p.dlog)

\* RistrettoPoint::compress: an injective encoding, not onto the byte strings
Compress(p) == LEBytes(3 * p.dlog + 2)

\* CompressedRistretto::decompress: None for a byte string that encodes no point
Decompress(bs) ==
    LET n == LEValue(bs)
    IN  IF n % 3 = 2 /\ (n \div 3) < GroupOrder THEN Ok(Point(n \div 3)) ELSE None

\* RistrettoPoint == : equality of group elements
PointEq(p, q) == p.dlog = q.dlog

RECURSIVE CtBytesEq(_, _)
\* subtle's ct_eq on two byte strings: 0 when the lengths differ, else it
\* accumulates over every byte and yields 1 or 0
CtBytesEq(x, y) ==
    IF Len(x) # Len(y) THEN 0
    ELSE IF Len(x) = 0 THEN 1
    ELSE (IF Head(x) = Head(y) THEN 1 ELSE 0) * CtBytesEq(Tail(x), Tail(y))

\* RistrettoPoint::ct_eq: constant-time comparison of the compressed forms
PointCtEq(p, q) == CtBytesEq(Compress(p), Compress(q))

(* -------------------------------- hash --------------------------------- *)

RECURSIVE HashFold(_, _)
HashFold(h, bs) ==
    IF Len(bs) = 0 THEN h
    ELSE HashFold((7 * h + 3 * Head(bs) + 1) % HashMod, Tail(bs))

\* the pluggable 512-bit digest of a byte string
Hash512(bs) == HashFold(1, bs)

\* e = H(R || msg) reduced to a scalar
generate_e(r, msg) == Hash512(Compress(r) \o msg) % GroupOrder

\* the messages: byte strings of SegLen bytes
Msg(i) == LEBytes(i)
Msgs == {Msg(i) : i \in 0 .. (MaxMsg - 1)}
\* what is hashed when the requester names no message
PlaceholderMsg == <<>>

(* ------------------------------ keypair -------------------------------- *)

BlindKeypair(private, public) == [private |-> private, public |-> public]

\* generate with the public key taken from the base point alone: Qs = P
BlindKeypair_generate_base(rngOk, x) ==
    IF ~rngOk THEN Err("RngInitFailed")
    ELSE Ok(BlindKeypair(x, RISTRETTO_BASEPOINT_POINT))

\* BlindKeypair::generate with the scalar x drawn by Scalar::random
BlindKeypair_generate(rngOk, x) ==
    IF ~rngOk THEN Err("RngInitFailed")
    ELSE Ok(BlindKeypair(x, PointMul(x, RISTRETTO_BASEPOINT_POINT)))

\* BlindKeypair::from_wired: each component parsed on its own
BlindKeypair_from_wired(private, public) ==
    LET x == Scalar_from_canonical_bytes(private)
        q == Decompress(public)
    IN  IF x.tag # "Ok" THEN Err("WiredScalarMalformed")
        ELSE IF q.tag # "Ok" THEN Err("WiredRistrettoPointMalformed")
        ELSE Ok(BlindKeypair(x.v, q.v))

public_wired(k) == Compress(k.public)
private_wired(k) == Scalar_to_bytes(k.private)

(* --------------------------- signer session ---------------------------- *)

\* new() that hands out the base point as commitment, whatever nonce it keeps
BlindSession_new_base(rngOk, k) ==
    IF ~rngOk THEN Err("RngInitFailed")
    ELSE Ok([rp |-> Compress(RISTRETTO_BASEPOINT_POINT),
             session |-> [k |-> k]])

\* BlindSession::new with the nonce k drawn by Scalar::random: (R' wire, session)
BlindSession_new(rngOk, k) ==
    IF ~rngOk THEN Err("RngInitFailed")
    ELSE Ok([rp |-> Compress(PointMul(k, RISTRETTO_BASEPOINT_POINT)),
             session |-> [k |-> k]])

\* sign_ep that leaves the nonce out of the share: S' = Xs*e'
sign_ep_no_nonce(self, epw, xs) ==
    LET e == Scalar_from_canonical_bytes(epw)
    IN  IF e.tag # "Ok" THEN Err("WiredScalarMalformed")
        ELSE Ok(Scalar_to_bytes(ScalarMul(xs, e.v)))

\* sign_ep with the nonce and the challenge exchanged: S' = Xs*k + e'
sign_ep_swapped(self, epw, xs) ==
    LET e == Scalar_from_canonical_bytes(epw)
    IN  IF e.tag # "Ok" THEN Err("WiredScalarMalformed")
        ELSE Ok(Scalar_to_bytes(ScalarAdd(ScalarMul(xs, self.k), e.v)))

\* BlindSession::sign_ep: S' = Xs*e' + k
sign_ep(self, epw, xs) ==
    LET e == Scalar_from_canonical_bytes(epw)
    IN  IF e.tag # "Ok" THEN Err("WiredScalarMalformed")
        ELSE Ok(Scalar_to_bytes(ScalarAdd(ScalarMul(xs, e.v), self.k)))

(* ------------------------- requester blinder --------------------------- *)

\* BlindRequest::new_specific_msg with the blinding scalars (a, b) drawn at random:
\* R = R' + a*G + b*Q, e = H(R || msg), e' = e + b
BlindRequest_new_specific_msg(rngOk, rpw, q, a, b, msg) ==
    LET rpt == Decompress(rpw)
    IN  IF ~rngOk THEN Err("RngInitFailed")
        ELSE IF rpt.tag # "Ok" THEN Err("WiredRistrettoPointMalformed")
        ELSE LET r == PointAdd(PointAdd(rpt.v, PointMul(a, RISTRETTO_BASEPOINT_POINT)),
                               PointMul(b, q))
                 e == generate_e(r, msg)
             IN  Ok([ep |-> Scalar_to_bytes(ScalarAdd(e, b)),
                     request |-> [a |-> a, b |-> b, e |-> e, r |-> r, msg |-> msg]])

\* BlindRequest::new: the same over the placeholder message
BlindRequest_new(rngOk, rpw, q, a, b) ==
    BlindRequest_new_specific_msg(rngOk, rpw, q, a, b, PlaceholderMsg)

\* BlindRequest::gen_signed_msg: S = S' + a, the triple (e, S, R)
gen_signed_msg(self, spw) ==
    LET s == Scalar_from_canonical_bytes(spw)
    IN  IF s.tag # "Ok" THEN Err("WiredScalarMalformed")
        ELSE Ok([e |-> self.e, s |-> ScalarAdd(s.v, self.a), r |-> self.r])

(* -------------------------- signature triple --------------------------- *)

\* UnblindedSigData::new
UnblindedSigData_new(e, s, r) == [e |-> e, s |-> s, r |-> r]

\* BlindSignedMsg::new
BlindSignedMsg_new(e, s, r) == [e |-> e, s |-> s, r |-> r]

\* authenticate with the public key left out of the check: S*P == e*P + R
authenticate_no_key(self, pub_key) ==
    PointEq(PointMul(self.s, RISTRETTO_BASEPOINT_POINT),
            PointAdd(PointMul(self.e, RISTRETTO_BASEPOINT_POINT), self.r))

\* UnblindedSigData::authenticate: S*P == e*Qs + R
authenticate(self, pub_key) ==
    PointEq(PointMul(self.s, RISTRETTO_BASEPOINT_POINT),
            PointAdd(PointMul(self.e, pub_key), self.r))

\* BlindSignedMsg::authenticate
BlindSignedMsg_authenticate(self, pub_key) ==
    PointEq(PointMul(self.s, RISTRETTO_BASEPOINT_POINT),
            PointAdd(PointMul(self.e, pub_key), self.r))

\* const_authenticate with R left out of the right-hand side: S*P ct_eq e*Qs
const_authenticate_no_r(self, pub_key) ==
    PointCtEq(PointMul(self.s, RISTRETTO_BASEPOINT_POINT),
              PointMul(self.e, pub_key)) = 1

\* UnblindedSigData::const_authenticate
const_authenticate(self, pub_key) ==
    PointCtEq(PointMul(self.s, RISTRETTO_BASEPOINT_POINT),
              PointAdd(PointMul(self.e, pub_key), self.r)) = 1

\* msg_authenticate that checks the stored e and never looks at msg
msg_authenticate_stored_e(self, pub_key, msg) ==
    PointEq(PointMul(self.s, RISTRETTO_BASEPOINT_POINT),
            PointAdd(PointMul(self.e, pub_key), self.r))

\* UnblindedSigData::msg_authenticate: e recomputed from R and msg
msg_authenticate(self, pub_key, msg) ==
    LET e == generate_e(self.r, msg)
    IN  PointEq(PointMul(self.s, RISTRETTO_BASEPOINT_POINT),
                PointAdd(PointMul(e, pub_key), self.r))

\* msg_const_authenticate that checks the stored e and never looks at msg
msg_const_authenticate_stored_e(self, pub_key, msg) ==
    PointCtEq(PointMul(self.s, RISTRETTO_BASEPOINT_POINT),
              PointAdd(PointMul(self.e, pub_key), self.r)) = 1

\* UnblindedSigData::msg_const_authenticate
msg_const_authenticate(self, pub_key, msg) ==
    LET e == generate_e(self.r, msg)
    IN  PointCtEq(PointMul(self.s, RISTRETTO_BASEPOINT_POINT),
                  PointAdd(PointMul(e, pub_key), self.r)) = 1

(* ----------------------------- wire form ------------------------------- *)

WireLen == 3 * SegLen
Wires == [1 .. WireLen -> Bytes]

\* arr[lo..hi].copy_from_slice(src) on a zero-based half-open range
CopyFromSlice(arr, lo, hi, src) ==
    [i \in 1 .. Len(arr) |-> IF lo < i /\ i <= hi THEN src[i - lo] ELSE arr[i]]

\* &arr[lo..hi]
Slice(arr, lo, hi) == SubSeq(arr, lo + 1, hi)

ZeroWire == [i \in 1 .. WireLen |-> 0]

\* From<UnblindedSigData> for WiredUnblindedSigData: e || S || R
WiredUnblindedSigData_from(usd) ==
    LET a1 == CopyFromSlice(ZeroWire, 0, SegLen, Scalar_to_bytes(usd.e))
        a2 == CopyFromSlice(a1, SegLen, 2 * SegLen, Scalar_to_bytes(usd.s))
    IN  CopyFromSlice(a2, 2 * SegLen, 3 * SegLen, Compress(usd.r))

\* to_internal_format that parses the point before the scalars
WiredUnblindedSigData_to_internal_format_r_first(w) ==
    LET e == Scalar_from_canonical_bytes(Slice(w, 0, SegLen))
        s == Scalar_from_canonical_bytes(Slice(w, SegLen, 2 * SegLen))
        r == Decompress(Slice(w, 2 * SegLen, 3 * SegLen))
    IN  IF r.tag # "Ok" THEN Err("WiredRistrettoPointMalformed")
        ELSE IF e.tag # "Ok" THEN Err("WiredScalarMalformed")
        ELSE IF s.tag # "Ok" THEN Err("WiredScalarMalformed")
        ELSE Ok([e |-> e.v, s |-> s.v, r |-> r.v])

\* WiredUnblindedSigData::to_internal_format
WiredUnblindedSigData_to_internal_format(w) ==
    LET e == Scalar_from_canonical_bytes(Slice(w, 0, SegLen))
        s == Scalar_from_canonical_bytes(Slice(w, SegLen, 2 * SegLen))
        r == Decompress(Slice(w, 2 * SegLen, 3 * SegLen))
    IN  IF e.tag # "Ok" THEN Err("WiredScalarMalformed")
        ELSE IF s.tag # "Ok" THEN Err("WiredScalarMalformed")
        ELSE IF r.tag # "Ok" THEN Err("WiredRistrettoPointMalformed")
        ELSE Ok([e |-> e.v, s |-> s.v, r |-> r.v])

\* the wire form with the two scalars in each other's place: S || e || R
WiredBlindSignedMsg_from_s_first(bsm) ==
    LET a1 == CopyFromSlice(ZeroWire, 0, SegLen, Scalar_to_bytes(bsm.s))
        a2 == CopyFromSlice(a1, SegLen, 2 * SegLen, Scalar_to_bytes(bsm.e))
    IN  CopyFromSlice(a2, 2 * SegLen, 3 * SegLen, Compress(bsm.r))

\* From<BlindSignedMsg> for WiredBlindSignedMsg: e || S || R
WiredBlindSignedMsg_from(bsm) ==
    LET a1 == CopyFromSlice(ZeroWire, 0, SegLen, Scalar_to_bytes(bsm.e))
        a2 == CopyFromSlice(a1, SegLen, 2 * SegLen, Scalar_to_bytes(bsm.s))
    IN  CopyFromSlice(a2, 2 * SegLen, 3 * SegLen, Compress(bsm.r))

\* WiredBlindSignedMsg::to_internal_format
WiredBlindSignedMsg_to_internal_format(w) ==
    LET e == Scalar_from_canonical_bytes(Slice(w, 0, SegLen))
        s == Scalar_from_canonical_bytes(Slice(w, SegLen, 2 * SegLen))
        r == Decompress(Slice(w, 2 * SegLen, 3 * SegLen))
    IN  IF e.tag # "Ok" THEN Err("WiredScalarMalformed")
        ELSE IF s.tag # "Ok" THEN Err("WiredScalarMalformed")
        ELSE IF r.tag # "Ok" THEN Err("WiredRistrettoPointMalformed")
        ELSE Ok([e |-> e.v, s |-> s.v, r |-> r.v])

(* ---------------------------- the state -------------------------------- *)
(* kp       Result of BlindKeypair::generate / from_wired                  *)
(* session  the signer's BlindSession: None, Ok (owned), Moved (consumed   *)
(*          by sign_ep; its nonce is kept for reference only), Err         *)
(* rp       the commitment R' in wire form, as returned by new()           *)
(* signs    how many sign_ep calls the session has been the subject of     *)
(* view     what the signer has seen: R', the received e', its answer      *)
(* req      the requester's BlindRequest: None, Ok, Moved, Err             *)
(* heard    what the requester has received: R' and the share S'           *)
(* ep       the blinded challenge e' in wire form                          *)
(* sp       Result of sign_ep                                              *)
(* sig      Result of gen_signed_msg, or a triple built by new()           *)
(* wired    the 96-byte form, of either wired type                         *)
(* decoded  Result of to_internal_format                                   *)
(* verdict  the results of the authenticate family on sig                  *)
(***************************************************************************)

Moved(x) == [tag |-> "Moved", v |-> x]

\* a byte string that is neither a canonical scalar nor a compressed point
BadWire == LEBytes(Pow(ByteBase, SegLen) - 1)

Init ==
    /\ kp = None
    /\ session = None
    /\ rp = None
    /\ signs = 0
    /\ view = None
    /\ req = None
    /\ heard = [rp |-> None, sp |-> None]
    /\ ep = None
    /\ sp = None
    /\ sig = None
    /\ wired = None
    /\ decoded = None
    /\ verdict = None

(* --------------------------- protocol steps ---------------------------- *)

\* BlindKeypair::generate(); the scalar drawn may be any scalar
Generate ==
    /\ kp.tag = "None"
    /\ \E rngOk \in BOOLEAN, x \in Scalars : kp' = BlindKeypair_generate(rngOk, x)
    /\ UNCHANGED <<session, rp, signs, view, req, heard, ep, sp, sig, wired, decoded, verdict>>

\* BlindKeypair::from_wired(private, public) on any two byte strings
FromWired ==
    /\ kp.tag = "None"
    /\ \E private \in Segments, public \in Segments :
           kp' = BlindKeypair_from_wired(private, public)
    /\ UNCHANGED <<session, rp, signs, view, req, heard, ep, sp, sig, wired, decoded, verdict>>

\* BlindSession::new()
SessionNew ==
    /\ session.tag = "None"
    /\ \E rngOk \in BOOLEAN, k \in Scalars :
           LET res == BlindSession_new(rngOk, k)
           IN  IF res.tag = "Ok"
               THEN session' = Ok(res.v.session) /\ rp' = Ok(res.v.rp)
               ELSE session' = res /\ rp' = rp
    /\ UNCHANGED <<kp, signs, view, req, heard, ep, sp, sig, wired, decoded, verdict>>

\* what the transport may deliver for a scalar sent: the bytes sent, the bytes of
\* another scalar, or bytes that encode no scalar
ScalarDelivered(w) ==
    {w, Scalar_to_bytes(ScalarAdd(LEValue(w), 1)), BadWire}

\* what the transport may deliver for a point sent: the bytes sent, the bytes of
\* another point, or bytes that encode no point
PointDelivered(w) ==
    {w, Compress(PointAdd(Decompress(w).v, RISTRETTO_BASEPOINT_POINT)), BadWire}

\* the commitment as it reaches the requester
RpInputs == PointDelivered(rp.v)

\* BlindRequest::new_specific_msg(rp, msg), blinding for the signer's public key
RequestNewSpecificMsg ==
    /\ req.tag = "None"
    /\ rp.tag = "Ok"
    /\ kp.tag = "Ok"
    /\ \E rngOk \in BOOLEAN, rpw \in RpInputs, a \in Scalars, b \in Scalars, msg \in Msgs :
           LET res == BlindRequest_new_specific_msg(rngOk, rpw, kp.v.public, a, b, msg)
           IN  /\ IF res.tag = "Ok"
                  THEN req' = Ok(res.v.request) /\ ep' = Ok(res.v.ep)
                  ELSE req' = res /\ ep' = ep
               /\ heard' = [heard EXCEPT !.rp = Ok(rpw)]
    /\ UNCHANGED <<kp, session, rp, signs, view, sp, sig, wired, decoded, verdict>>

\* BlindRequest::new(rp)
RequestNew ==
    /\ req.tag = "None"
    /\ rp.tag = "Ok"
    /\ kp.tag = "Ok"
    /\ \E rngOk \in BOOLEAN, rpw \in RpInputs, a \in Scalars, b \in Scalars :
           LET res == BlindRequest_new(rngOk, rpw, kp.v.public, a, b)
           IN  /\ IF res.tag = "Ok"
                  THEN req' = Ok(res.v.request) /\ ep' = Ok(res.v.ep)
                  ELSE req' = res /\ ep' = ep
               /\ heard' = [heard EXCEPT !.rp = Ok(rpw)]
    /\ UNCHANGED <<kp, session, rp, signs, view, sp, sig, wired, decoded, verdict>>

\* the challenge as it reaches the signer
EpInputs == IF ep.tag = "Ok" THEN ScalarDelivered(ep.v) ELSE {BadWire}

\* sign_ep borrowing the session (&self): the caller keeps it
SignEpBorrowed ==
    /\ session.tag = "Ok"
    /\ kp.tag = "Ok"
    /\ signs < 3
    /\ \E epw \in EpInputs :
           /\ sp' = sign_ep(session.v, epw, kp.v.private)
           /\ view' = Ok([rp |-> rp.v, ep |-> epw, sp |-> sp'])
    /\ session' = session
    /\ signs' = signs + 1
    /\ UNCHANGED <<kp, rp, req, heard, ep, sig, wired, decoded, verdict>>

\* session.sign_ep(ep, keypair.private()): sign_ep takes the session by value, so
\* whatever it returns, the caller's session is gone
SignEp ==
    /\ session.tag = "Ok"
    /\ kp.tag = "Ok"
    /\ \E epw \in EpInputs :
           /\ sp' = sign_ep(session.v, epw, kp.v.private)
           /\ view' = Ok([rp |-> rp.v, ep |-> epw, sp |-> sp'])
    /\ session' = Moved(session.v)
    /\ signs' = signs + 1
    /\ UNCHANGED <<kp, rp, req, heard, ep, sig, wired, decoded, verdict>>

\* the share as it reaches the requester
SpInputs == IF sp.tag = "Ok" THEN ScalarDelivered(sp.v) ELSE {BadWire}

\* request.gen_signed_msg(sp): takes the request by value
GenSignedMsg ==
    /\ req.tag = "Ok"
    /\ sp.tag # "None"
    /\ \E spw \in SpInputs :
           /\ sig' = gen_signed_msg(req.v, spw)
           /\ heard' = [heard EXCEPT !.sp = Ok(spw)]
    /\ req' = Moved(req.v)
    /\ UNCHANGED <<kp, session, rp, signs, view, ep, sp, wired, decoded, verdict>>

(* ------------------------------ the codec ------------------------------ *)

\* WiredUnblindedSigData::from(sig)
EncodeSig ==
    /\ sig.tag = "Ok"
    /\ wired.tag = "None"
    /\ wired' = [tag |-> "WiredUnblindedSigData", v |-> WiredUnblindedSigData_from(sig.v)]
    /\ UNCHANGED <<kp, session, rp, signs, view, req, heard, ep, sp, sig, decoded, verdict>>

\* WiredBlindSignedMsg::from(sig)
EncodeMsg ==
    /\ sig.tag = "Ok"
    /\ wired.tag = "None"
    /\ wired' = [tag |-> "WiredBlindSignedMsg", v |-> WiredBlindSignedMsg_from(sig.v)]
    /\ UNCHANGED <<kp, session, rp, signs, view, req, heard, ep, sp, sig, decoded, verdict>>

\* wired.to_internal_format() on a WiredUnblindedSigData
DecodeSig ==
    /\ wired.tag = "WiredUnblindedSigData"
    /\ decoded.tag = "None"
    /\ decoded' = WiredUnblindedSigData_to_internal_format(wired.v)
    /\ UNCHANGED <<kp, session, rp, signs, view, req, heard, ep, sp, sig, wired, verdict>>

\* wired.to_internal_format() on a WiredBlindSignedMsg
DecodeMsg ==
    /\ wired.tag = "WiredBlindSignedMsg"
    /\ decoded.tag = "None"
    /\ decoded' = WiredBlindSignedMsg_to_internal_format(wired.v)
    /\ UNCHANGED <<kp, session, rp, signs, view, req, heard, ep, sp, sig, wired, verdict>>

(* ------------- triples and wire values built by the caller ------------- *)

\* UnblindedSigData::new(e, s, r) on any values of the type Scalar and any point
SigNew ==
    /\ sig.tag = "None"
    /\ wired.tag = "None"
    /\ \E e \in ScalarValues, s \in ScalarValues, r \in Points :
           sig' = Ok(UnblindedSigData_new(e, s, r))
    /\ UNCHANGED <<kp, session, rp, signs, view, req, heard, ep, sp, wired, decoded, verdict>>

\* BlindSignedMsg::new(e, s, r) on any values of the type Scalar and any point
MsgNew ==
    /\ sig.tag = "None"
    /\ wired.tag = "None"
    /\ \E e \in ScalarValues, s \in ScalarValues, r \in Points :
           sig' = Ok(BlindSignedMsg_new(e, s, r))
    /\ UNCHANGED <<kp, session, rp, signs, view, req, heard, ep, sp, wired, decoded, verdict>>

WiredTypes == {"WiredUnblindedSigData", "WiredBlindSignedMsg"}

\* WiredUnblindedSigData(bytes) / WiredBlindSignedMsg(bytes): the field is public,
\* so any 96 bytes can be wrapped
WiredNew ==
    /\ sig.tag = "None"
    /\ wired.tag = "None"
    /\ \E ty \in WiredTypes, bytes \in Wires : wired' = [tag |-> ty, v |-> bytes]
    /\ UNCHANGED <<kp, session, rp, signs, view, req, heard, ep, sp, sig, decoded, verdict>>

\* the results of the authenticate family on sig (t) and on the triple that
\* differs from it in e alone (t2), for a public key and a message
Verdict(t, t2, pub_key, msg) ==
    [pub_key |-> pub_key, msg |-> msg, t2 |-> t2,
     auth |-> authenticate(t, pub_key),
     bsm_auth |-> BlindSignedMsg_authenticate(t, pub_key),
     const_auth |-> const_authenticate(t, pub_key),
     msg_auth |-> msg_authenticate(t, pub_key, msg),
     msg_const_auth |-> msg_const_authenticate(t, pub_key, msg),
     msg_auth2 |-> msg_authenticate(t2, pub_key, msg),
     msg_const_auth2 |-> msg_const_authenticate(t2, pub_key, msg)]

Verify ==
    /\ sig.tag = "Ok"
    /\ verdict.tag = "None"
    /\ \E pub_key \in Points, msg \in Msgs, e2 \in ScalarValues :
           verdict' = Ok(Verdict(sig.v, UnblindedSigData_new(e2, sig.v.s, sig.v.r),
                                 pub_key, msg))
    /\ UNCHANGED <<kp, session, rp, signs, view, req, heard, ep, sp, sig, wired, decoded>>

(* -------------------------- specifications ----------------------------- *)

\* one run of the protocol, its result put on the wire and read back
Next ==
    \/ Generate
    \/ FromWired
    \/ SessionNew
    \/ RequestNewSpecificMsg
    \/ RequestNew
    \/ SignEp
    \/ GenSignedMsg
    \/ EncodeSig
    \/ EncodeMsg
    \/ DecodeSig
    \/ DecodeMsg

Spec == Init /\ [][Next]_vars

\* the triple, its wire form and the authenticate family on inputs of the caller
NextCodec ==
    \/ SigNew
    \/ MsgNew
    \/ WiredNew
    \/ EncodeSig
    \/ EncodeMsg
    \/ DecodeSig
    \/ DecodeMsg
    \/ Verify

SpecCodec == Init /\ [][NextCodec]_vars

(* ============================== claims ================================= *)

\* the keypair invariant: public = private * Generator
KeypairValid(k) == PointEq(k.public, PointMul(k.private, RISTRETTO_BASEPOINT_POINT))

\* every message of the run reached its receiver as it was sent
Faithful ==
    /\ heard.rp = rp
    /\ view.tag = "Ok" /\ ep.tag = "Ok" /\ view.v.ep = ep.v
    /\ heard.sp = sp

\* a run generate/from_wired -> new -> new -> sign_ep -> gen_signed_msg has
\* completed under a keypair with public = private * Generator
RunComplete ==
    /\ kp.tag = "Ok" /\ KeypairValid(kp.v)
    /\ sig.tag = "Ok"
    /\ Faithful

\* C1: for every private key x with public key Q = x*G, nonce k, blinding scalars
\* (a, b) and message, the triple (e, s, R) of a complete run authenticates under
\* Q, s*G = e*Q + R, and so does the triple read back from its wire form.
C1_EndToEnd ==
    RunComplete =>
        /\ authenticate(sig.v, kp.v.public)
        /\ BlindSignedMsg_authenticate(sig.v, kp.v.public)
        /\ decoded.tag # "None" =>
               /\ decoded.tag = "Ok"
               /\ authenticate(decoded.v, kp.v.public)
               /\ BlindSignedMsg_authenticate(decoded.v, kp.v.public)

\* a complete run with non-trivial key, nonce and blinding, read back from the wire
C1_Witness ==
    /\ RunComplete
    /\ decoded.tag = "Ok"
    /\ kp.v.private # 0 /\ session.v.k # 0
    /\ req.v.a # 0 /\ req.v.b # 0
    /\ authenticate(decoded.v, kp.v.public)

\* a complete run whose request was made for a message the requester named
RunCompleteForMsg == RunComplete /\ req.v.msg \in Msgs

\* C2 as stated: for the triple of a complete run under keypair K whose request
\* was made for message m, msg_authenticate(K.public, m) is true and
\* msg_authenticate(K.public, m') is false for every other message m', while
\* authenticate(K.public) is true.
C2_MsgBindingAsStated ==
    RunCompleteForMsg =>
        /\ authenticate(sig.v, kp.v.public)
        /\ msg_authenticate(sig.v, kp.v.public, req.v.msg)
        /\ \A m2 \in Msgs \ {req.v.msg} : ~msg_authenticate(sig.v, kp.v.public, m2)

\* C2 amended: msg_authenticate(K.public, m) is true for the message m of the
\* request, and for another message m' it is true exactly when K.public is the
\* identity point (private key 0) or m' hashes with R to the same challenge as m;
\* so it is false for every m' of another challenge under a non-identity key.
\* authenticate(K.public) is true throughout.
C2_MsgBinding ==
    RunCompleteForMsg =>
        /\ authenticate(sig.v, kp.v.public)
        /\ msg_authenticate(sig.v, kp.v.public, req.v.msg)
        /\ msg_const_authenticate(sig.v, kp.v.public, req.v.msg)
        /\ \A m2 \in Msgs \ {req.v.msg} :
               msg_authenticate(sig.v, kp.v.public, m2)
                   <=> \/ PointEq(kp.v.public, IdentityPoint)
                       \/ generate_e(sig.v.r, m2) = generate_e(sig.v.r, req.v.msg)

\* a complete run for a message, under a non-identity key, where some other message
\* is rejected although authenticate accepts the triple
C2_Witness ==
    /\ RunCompleteForMsg
    /\ ~PointEq(kp.v.public, IdentityPoint)
    /\ req.v.a # 0 /\ req.v.b # 0
    /\ authenticate(sig.v, kp.v.public)
    /\ msg_authenticate(sig.v, kp.v.public, req.v.msg)
    /\ \E m2 \in Msgs \ {req.v.msg} : ~msg_authenticate(sig.v, kp.v.public, m2)

\* C3 as stated: for the triple of a complete run under keypair K,
\* authenticate(other_public) is false whenever other_public # K.public.
C3_CrossKeyAsStated ==
    RunComplete =>
        \A other \in Points :
            ~PointEq(other, kp.v.public) =>
                /\ ~authenticate(sig.v, other)
                /\ ~BlindSignedMsg_authenticate(sig.v, other)

\* C3 amended: for the triple of a complete run under keypair K,
\* authenticate(other_public) with other_public # K.public is false whenever the
\* triple's challenge e is not zero; when e = 0 every public key authenticates.
C3_CrossKey ==
    RunComplete =>
        \A other \in Points :
            ~PointEq(other, kp.v.public) =>
                /\ authenticate(sig.v, other) <=> (sig.v.e = 0)
                /\ BlindSignedMsg_authenticate(sig.v, other) <=> (sig.v.e = 0)

\* a complete run with a non-zero challenge: its own key accepts, another rejects
C3_Witness ==
    /\ RunComplete
    /\ sig.v.e # 0
    /\ authenticate(sig.v, kp.v.public)
    /\ \E other \in Points : ~PointEq(other, kp.v.public) /\ ~authenticate(sig.v, other)

\* a byte string is the canonical encoding of some scalar
CanonicalScalar(seg) == \E x \in Scalars : Scalar_to_bytes(x) = seg

\* a byte string is the compressed form of some point
CompressedPoint(seg) == \E q \in Points : Compress(q) = seg

\* two triples are equal in all three fields
TripleEq(t, u) == t.e = u.e /\ t.s = u.s /\ PointEq(t.r, u.r)

\* a triple is valid: its two scalars are reduced (held canonically)
ValidTriple(t) == t.e \in Scalars /\ t.s \in Scalars

\* C4: wire round trip.  Encoding an in-memory triple t = (e, s, r) always yields
\* the 96-byte form with e in [0,32), s in [32,64) and compressed r in [64,96),
\* and for every valid t (e and s reduced scalars) to_internal_format on it
\* returns Ok with a triple equal to t in all fields.  A triple built by new() from
\* an unreduced Scalar is not valid: its wire form is rejected as
\* WiredScalarMalformed.
C4_RoundTrip ==
    (sig.tag = "Ok" /\ wired.tag # "None") =>
        /\ Len(wired.v) = WireLen
        /\ SubSeq(wired.v, 1, SegLen) = Scalar_to_bytes(sig.v.e)
        /\ SubSeq(wired.v, SegLen + 1, 2 * SegLen) = Scalar_to_bytes(sig.v.s)
        /\ SubSeq(wired.v, 2 * SegLen + 1, 3 * SegLen) = Compress(sig.v.r)
        /\ decoded.tag # "None" =>
               IF ValidTriple(sig.v)
               THEN decoded.tag = "Ok" /\ TripleEq(decoded.v, sig.v)
               ELSE decoded = Err("WiredScalarMalformed")

\* a triple with three different non-zero fields went to the wire and came back
C4_Witness ==
    /\ sig.tag = "Ok" /\ wired.tag = "WiredBlindSignedMsg" /\ decoded.tag = "Ok"
    /\ ValidTriple(sig.v)
    /\ sig.v.e # 0 /\ sig.v.s # 0 /\ sig.v.e # sig.v.s /\ sig.v.r # IdentityPoint
    /\ TripleEq(decoded.v, sig.v)

\* C5: for every triple (e, s, r), valid signature or not, and every public key,
\* const_authenticate returns the same boolean as authenticate.
C5_ConstAgrees ==
    verdict.tag = "Ok" =>
        /\ verdict.v.const_auth = verdict.v.auth
        /\ verdict.v.const_auth = verdict.v.bsm_auth

\* both verdicts on a triple that is no valid signature under the key
C5_Witness ==
    /\ verdict.tag = "Ok"
    /\ sig.v.e # 0 /\ sig.v.r # IdentityPoint
    /\ ~verdict.v.auth /\ ~verdict.v.const_auth

\* C6: decoding is all or nothing.  to_internal_format returns
\* WiredScalarMalformed when the e or the s segment is no canonical scalar,
\* WiredRistrettoPointMalformed when both are canonical and the r segment does not
\* decompress, and Ok with the triple of the three segments only when all three
\* are well formed; an error carries no triple.
C6_DecodeAllOrNothing ==
    decoded.tag # "None" =>
        LET eseg == SubSeq(wired.v, 1, SegLen)
            sseg == SubSeq(wired.v, SegLen + 1, 2 * SegLen)
            rseg == SubSeq(wired.v, 2 * SegLen + 1, 3 * SegLen)
            scalarsOk == CanonicalScalar(eseg) /\ CanonicalScalar(sseg)
        IN  /\ ~scalarsOk => decoded = Err("WiredScalarMalformed")
            /\ (scalarsOk /\ ~CompressedPoint(rseg)) =>
                   decoded = Err("WiredRistrettoPointMalformed")
            /\ (scalarsOk /\ CompressedPoint(rseg)) =>
                   /\ decoded.tag = "Ok"
                   /\ Scalar_to_bytes(decoded.v.e) = eseg
                   /\ Scalar_to_bytes(decoded.v.s) = sseg
                   /\ Compress(decoded.v.r) = rseg
            /\ decoded.tag = "Err" => DOMAIN decoded = {"tag", "err"}

\* a wire value with a malformed scalar and a malformed point was decoded
C6_Witness ==
    /\ wired.tag = "WiredUnblindedSigData"
    /\ sig.tag = "None"
    /\ CanonicalScalar(SubSeq(wired.v, 1, SegLen))
    /\ ~CanonicalScalar(SubSeq(wired.v, SegLen + 1, 2 * SegLen))
    /\ ~CompressedPoint(SubSeq(wired.v, 2 * SegLen + 1, 3 * SegLen))
    /\ decoded = Err("WiredScalarMalformed")

\* C10: msg_authenticate and msg_const_authenticate ignore the stored e: two
\* triples that agree on s and r give, for any public key and message, the same
\* result, which is s*G == Hash512(r || m)*pk + r.
C10_StoredEIgnored ==
    verdict.tag = "Ok" =>
        LET t == sig.v
            expected == PointMul(t.s, RISTRETTO_BASEPOINT_POINT) =
                            PointAdd(PointMul(Hash512(Compress(t.r) \o verdict.v.msg)
                                                  % GroupOrder,
                                              verdict.v.pub_key),
                                     t.r)
        IN  /\ verdict.v.t2.s = t.s /\ verdict.v.t2.r = t.r
            /\ verdict.v.msg_auth = verdict.v.msg_auth2
            /\ verdict.v.msg_const_auth = verdict.v.msg_const_auth2
            /\ verdict.v.msg_auth = expected
            /\ verdict.v.msg_const_auth = expected

\* two triples that differ in e, neither e the challenge of the message, accepted
\* for the message although authenticate rejects the first
C10_Witness ==
    /\ verdict.tag = "Ok"
    /\ verdict.v.t2.e # sig.v.e
    /\ generate_e(sig.v.r, verdict.v.msg) \notin {sig.v.e, verdict.v.t2.e}
    /\ ~PointEq(verdict.v.pub_key, IdentityPoint)
    /\ verdict.v.msg_auth /\ verdict.v.msg_auth2
    /\ ~verdict.v.auth

\* C7: single-use nonce.  A BlindSession is the subject of at most one sign_ep
\* call: once sign_ep has been invoked on it, whether it returned a share or
\* failed with WiredScalarMalformed, the session is consumed and no further
\* sign_ep on it is possible.
C7_SingleUse ==
    /\ signs <= 1
    /\ (signs = 1) <=> (session.tag = "Moved")
    /\ (signs = 1) <=> (sp.tag # "None")
    /\ session.tag = "Moved" => ~ENABLED SignEp

\* sign_ep failed on a malformed challenge and the session is consumed all the same
C7_Witness ==
    /\ signs = 1
    /\ session.tag = "Moved"
    /\ sp = Err("WiredScalarMalformed")

\* C8 as stated: every BlindKeypair constructed, by generate() or by
\* from_wired(priv_bytes, pub_bytes), satisfies public = private * Generator.
C8_KeypairInvariantAsStated ==
    kp.tag = "Ok" => KeypairValid(kp.v)

\* C8 amended: every BlindKeypair constructed by generate() satisfies
\* public = private * Generator; from_wired(priv_bytes, pub_bytes) returns Ok for
\* every canonical scalar and every compressed point, its keypair holds exactly the
\* two parsed components, and it satisfies the invariant only when pub_bytes is the
\* compressed form of priv * Generator.
C8_KeypairInvariant ==
    [][/\ Generate => (kp'.tag = "Ok" => KeypairValid(kp'.v))
       /\ (kp.tag = "None" /\ kp'.tag # "None") =>
          \A private \in Segments, public \in Segments :
              kp' = BlindKeypair_from_wired(private, public) =>
                  /\ kp'.tag = "Ok" <=> (CanonicalScalar(private) /\ CompressedPoint(public))
                  /\ kp'.tag = "Ok" =>
                         /\ private_wired(kp'.v) = private
                         /\ public_wired(kp'.v) = public
                         /\ KeypairValid(kp'.v) <=>
                                public = Compress(PointMul(LEValue(private),
                                                           RISTRETTO_BASEPOINT_POINT))
      ]_vars

\* a keypair with a non-zero private key that satisfies the invariant
C8_Witness ==
    /\ kp.tag = "Ok"
    /\ kp.v.private # 0
    /\ KeypairValid(kp.v)

\* the signer's view (R', e', s') is explained by the triple (e, s, R) and the
\* blinding scalars (a, b) under the public key q
Explains(v, t, q, a, b) ==
    /\ PointEq(t.r, PointAdd(PointAdd(Decompress(v.rp).v,
                                      PointMul(a, RISTRETTO_BASEPOINT_POINT)),
                             PointMul(b, q)))
    /\ Scalar_from_canonical_bytes(v.ep).v = ScalarAdd(t.e, b)
    /\ t.s = ScalarAdd(Scalar_from_canonical_bytes(v.sp.v).v, a)

\* C9: blindness.  Under a signer keypair with public = private * Generator, the
\* signer's view (R', e', s') of a session that returned a share does not determine
\* the revealed triple: whenever sign_ep completes a view, for every triple
\* (e, s, R) that authenticates under the signer's public key there are blinding
\* scalars (a, b) with R = R' + a*G + b*Q, e' = e + b and s = s' + a.
C9_Blindness ==
    [][(/\ kp.tag = "Ok" /\ KeypairValid(kp.v)
        /\ view.tag = "None" /\ view'.tag = "Ok" /\ view'.v.sp.tag = "Ok") =>
           \A e \in Scalars, s \in Scalars, r \in Points :
               authenticate(UnblindedSigData_new(e, s, r), kp.v.public) =>
                   \E a \in Scalars, b \in Scalars :
                       Explains(view'.v, UnblindedSigData_new(e, s, r), kp.v.public, a, b)
      ]_vars

\* a completed view under a non-zero key and nonce, and a run that revealed a triple
C9_Witness ==
    /\ RunComplete
    /\ view.v.sp.tag = "Ok"
    /\ kp.v.private # 0 /\ session.v.k # 0
    /\ Explains(view.v, sig.v, kp.v.public, req.v.a, req.v.b)
    /\ \E e \in Scalars, s \in Scalars, r \in Points :
           /\ ~TripleEq(UnblindedSigData_new(e, s, r), sig.v)
           /\ authenticate(UnblindedSigData_new(e, s, r), kp.v.public)

\* C11: for a session created by new() with nonce k and commitment R' = k*G,
\* sign_ep(e', xs) on a canonical challenge e' returns the share
\* s' = xs*e' + k (mod the group order), so that s'*G == e'*(xs*G) + R'; on a
\* challenge that is no canonical scalar it returns WiredScalarMalformed and no
\* share.
C11_SignShare ==
    view.tag = "Ok" =>
        LET k == session.v.k
            xs == kp.v.private
            rpt == Decompress(view.v.rp)
        IN  /\ view.v.rp = rp.v /\ view.v.sp = sp
            /\ rpt.tag = "Ok"
            /\ PointEq(rpt.v, PointMul(k, RISTRETTO_BASEPOINT_POINT))
            /\ CanonicalScalar(view.v.ep) =>
                   /\ sp.tag = "Ok"
                   /\ CanonicalScalar(sp.v)
                   /\ LEValue(sp.v) = (xs * LEValue(view.v.ep) + k) % GroupOrder
                   /\ PointEq(PointMul(LEValue(sp.v), RISTRETTO_BASEPOINT_POINT),
                              PointAdd(PointMul(LEValue(view.v.ep),
                                                PointMul(xs, RISTRETTO_BASEPOINT_POINT)),
                                       rpt.v))
            /\ ~CanonicalScalar(view.v.ep) =>
                   /\ sp = Err("WiredScalarMalformed")
                   /\ DOMAIN sp = {"tag", "err"}

\* sign_ep returned a share for a non-zero challenge, private key and nonce
C11_Witness ==
    /\ view.tag = "Ok"
    /\ sp.tag = "Ok"
    /\ kp.v.private # 0 /\ session.v.k # 0
    /\ LEValue(view.v.ep) # 0
    /\ LEValue(sp.v) = (kp.v.private * LEValue(view.v.ep) + session.v.k) % GroupOrder

====
